---------------------------- MODULE Spec2Model ----------------------------
(***************************************************************************)
(* Live guided session of TheraFlow Yoga: the LiveYogaSession component    *)
(* (components/LiveYogaSession.tsx) and connectToYogaSession               *)
(* (services/gemini.ts).                                                   *)
(*                                                                         *)
(* The browser runs the component on one event loop.  Every action below   *)
(* is one synchronous segment of a handler: from its entry, or from the    *)
(* resumption of an await, up to its next await or its end.  The camera,   *)
(* the web-socket, the audio hardware and the user are the environment.    *)
(* A continuation whose promise is already settled (the await on the       *)
(* repository's own decodeAudioData, a then on the resolved session        *)
(* promise) is a microtask: it runs before the next event is delivered.    *)
(* The output clock is advanced by the audio thread at any time.           *)
(*                                                                         *)
(* JS numbers are kept in halves (Num(n) = 2n), so that the fractional     *)
(* index 1.5 a tool call may carry is representable as 3.                  *)
(***************************************************************************)
EXTENDS Integers, Sequences, FiniteSets, TLC

\* ---------------------------------------------------------------- bounds
PoseCount == 3       \* sequence.poses.length of the sequence under practice
MaxBlocks == 2       \* microphone blocks the audio hardware delivers
MaxTicks == 2        \* firings of the frame-sampling interval
MaxMsgs == 2         \* inbound audio messages
MaxToolMsgs == 1     \* inbound tool-call messages
MaxCalls == 2        \* function calls carried by one inbound message
MaxDur == 2          \* longest decoded buffer, in clock units
MaxClock == 3        \* the output clock is observed up to this time
SampleSpan == 20     \* samples taken on each side of -1.0, of 0 and of 1.0
SampleSteps == 2     \* sample values distinguished per 1 / 32768

\* ------------------------------------------------------ program constants
PcmScale == 32768        \* int16[i] = data[i] * 32768
Int16Modulus == 65536    \* the width of an Int16Array element

\* ------------------------------------------------------------- variables
VARIABLES
  mounted,            \* the LiveYogaSession component is mounted
  currentPoseIndex,   \* useState(0), in halves
  isSessionActive,    \* useState(false)
  isConnected,        \* useState(false)
  isSpeaking,         \* useState(false)
  status,             \* useState("Ready to Start")
  streamRef,          \* useRef<MediaStream | null>
  audioContextRef,    \* useRef<AudioContext | null>
  processorRef,       \* useRef<ScriptProcessorNode | null>
  frameIntervalRef,   \* useRef<number | null>
  videoSrc,           \* videoRef.current.srcObject of the rendered <video>
  tracks,             \* the camera and microphone tracks of the stream
  inputCtx,           \* the 16 kHz AudioContext
  outputCtx,          \* the 24 kHz AudioContext
  timer,              \* the window.setInterval frame timer
  processor,          \* the ScriptProcessorNode
  releases,           \* how many times each resource has been released
  gum,                \* the getUserMedia promise of initCamera
  pc,                 \* position of handleStartSession
  sessionPromise,     \* the promise connectToYogaSession returned
  channel,            \* the web-socket under ai.live.connect
  captured,           \* microphone blocks delivered to onaudioprocess
  pcm,                \* a sample of the last block and what it was encoded to
  ticks,              \* firings of the frame interval
  blobPending,        \* frames whose canvas.toBlob has not called back
  b64Pending,         \* frames whose blobToBase64 has not resolved
  thenQueue,          \* callbacks registered with sessionPromise.then
  sentAudio,          \* audio chunks handed to session.sendRealtimeInput
  sentFrames,         \* frames handed to session.sendRealtimeInput
  sentResponses,      \* responses handed to session.sendToolResponse
  msgCount,           \* inbound messages delivered to onMessage
  decodePending,      \* onMessage invocations suspended at await decode
  nextStartTimeRef,   \* useRef<number>(0)
  currentTime,        \* outputCtx.currentTime
  sourcesRef,         \* useRef<Set<AudioBufferSourceNode>>
  scheduled,          \* source.start calls, in call order
  lastBatch,          \* the function calls the tool loop ran over last
  unhandledRejections \* messages whose onMessage promise rejected, with their calls

uiVars == <<mounted, currentPoseIndex, isSessionActive, isConnected, isSpeaking, status>>
refVars == <<streamRef, audioContextRef, processorRef, frameIntervalRef, videoSrc>>
resVars == <<tracks, inputCtx, outputCtx, timer, processor, releases>>
connVars == <<gum, pc, sessionPromise, channel>>
outVars == <<captured, pcm, ticks, blobPending, b64Pending, thenQueue, sentAudio, sentFrames, sentResponses>>
sentVars == <<sentAudio, sentFrames, sentResponses>>
inVars == <<msgCount, decodePending, nextStartTimeRef, currentTime, sourcesRef, scheduled, lastBatch,
           unhandledRejections>>
vars == <<uiVars, refVars, resVars, connVars, outVars, inVars>>

\* --------------------------------------------------------------- helpers
Num(n) == 2 * n

IsInteger(x) == x % 2 = 0

Max(a, b) == IF a >= b THEN a ELSE b

Min(a, b) == IF a <= b THEN a ELSE b

Resources == {"tracks", "inputCtx", "outputCtx", "timer", "processor"}

\* React drops a state update made after the component has unmounted.
SetState(old, new) == IF mounted THEN new ELSE old

\* const currentPose = sequence.poses[currentPoseIndex]: the render reads
\* currentPose.english_name, which throws when the index names no pose.
RenderThrows(idx) == ~(IsInteger(idx) /\ idx >= 0 /\ idx < Num(PoseCount))

TaskBoundaryIgnoringDecode == sessionPromise = "resolved" => thenQueue = <<>>

\* The microtask queue is empty: the event loop may deliver the next event.
TaskBoundary ==
  /\ decodePending = <<>>
  /\ sessionPromise = "resolved" => thenQueue = <<>>

NoBatch == [calls |-> <<>>, before |-> 0, after |-> 0, live |-> FALSE]

\* ------------------------------------------------------------------ Init
Init ==
  /\ mounted = TRUE
  /\ currentPoseIndex = Num(0)
  /\ isSessionActive = FALSE
  /\ isConnected = FALSE
  /\ isSpeaking = FALSE
  /\ status = "Ready to Start"
  /\ streamRef = "null"
  /\ audioContextRef = "null"
  /\ processorRef = "null"
  /\ frameIntervalRef = "null"
  /\ videoSrc = "null"
  /\ tracks = "none"
  /\ inputCtx = "none"
  /\ outputCtx = "none"
  /\ timer = "none"
  /\ processor = "none"
  /\ releases = [r \in Resources |-> 0]
  /\ gum = "pending"
  /\ pc = "idle"
  /\ sessionPromise = "none"
  /\ channel = "none"
  /\ captured = 0
  /\ pcm = [sample |-> 0, int16 |-> 0]
  /\ ticks = 0
  /\ blobPending = {}
  /\ b64Pending = {}
  /\ thenQueue = <<>>
  /\ sentAudio = <<>>
  /\ sentFrames = <<>>
  /\ sentResponses = <<>>
  /\ msgCount = 0
  /\ decodePending = <<>>
  /\ nextStartTimeRef = 0
  /\ currentTime = 0
  /\ sourcesRef = {}
  /\ scheduled = <<>>
  /\ lastBatch = NoBatch
  /\ unhandledRejections = {}

\* ------------------------------------------------------------- lifecycle
\* cleanup(): each release is guarded by its ref; the input context has no
\* ref and is not touched.
cleanup ==
  /\ tracks' = IF streamRef # "null" THEN "stopped" ELSE tracks
  /\ outputCtx' = IF audioContextRef # "null" THEN "closed" ELSE outputCtx
  /\ timer' = IF frameIntervalRef # "null" THEN "cleared" ELSE timer
  /\ processor' = IF processorRef # "null" THEN "disconnected" ELSE processor
  /\ releases' = [r \in Resources |->
       CASE r = "tracks" -> releases[r] + (IF streamRef # "null" THEN 1 ELSE 0)
         [] r = "outputCtx" -> releases[r] + (IF audioContextRef # "null" THEN 1 ELSE 0)
         [] r = "timer" -> releases[r] + (IF frameIntervalRef # "null" THEN 1 ELSE 0)
         [] r = "processor" -> releases[r] + (IF processorRef # "null" THEN 1 ELSE 0)
         [] OTHER -> releases[r]]
  /\ UNCHANGED inputCtx

\* initCamera, after await getUserMedia resolved.
InitCameraGranted ==
  /\ TaskBoundary
  /\ gum = "pending"
  /\ gum' = "granted"
  /\ streamRef' = "stream"
  /\ tracks' = "live"
  /\ videoSrc' = IF mounted THEN "stream" ELSE videoSrc
  /\ UNCHANGED <<uiVars, audioContextRef, processorRef, frameIntervalRef>>
  /\ UNCHANGED <<inputCtx, outputCtx, timer, processor, releases>>
  /\ UNCHANGED <<pc, sessionPromise, channel, outVars, inVars>>

\* initCamera, catch branch.
InitCameraDenied ==
  /\ TaskBoundary
  /\ gum = "pending"
  /\ gum' = "denied"
  /\ status' = SetState(status, "Camera access required.")
  /\ UNCHANGED <<mounted, currentPoseIndex, isSessionActive, isConnected, isSpeaking>>
  /\ UNCHANGED <<refVars, resVars, pc, sessionPromise, channel, outVars, inVars>>

StartButtonShownAlways == TRUE

\* if (!isSessionActive): the pre-session view, which holds the Start
\* Session button, is rendered only until the session is active.
StartButtonShown == ~isSessionActive

\* handleStartSession up to await inputCtx.resume(); the effect on
\* isSessionActive re-attaches the stream to the live view's <video>.
handleStartSession ==
  /\ TaskBoundary
  /\ mounted /\ StartButtonShown
  /\ isSessionActive' = TRUE
  /\ status' = "Connecting to AI..."
  /\ inputCtx' = "suspended"
  /\ outputCtx' = "suspended"
  /\ videoSrc' = IF streamRef # "null" THEN "stream" ELSE "null"
  /\ pc' = "resume_input"
  /\ UNCHANGED <<mounted, currentPoseIndex, isConnected, isSpeaking>>
  /\ UNCHANGED <<streamRef, audioContextRef, processorRef, frameIntervalRef>>
  /\ UNCHANGED <<tracks, timer, processor, releases>>
  /\ UNCHANGED <<gum, sessionPromise, channel, outVars, inVars>>

\* await inputCtx.resume() resolved.
ResumeInput ==
  /\ TaskBoundary
  /\ pc = "resume_input"
  /\ inputCtx' = "running"
  /\ pc' = "resume_output"
  /\ UNCHANGED <<uiVars, refVars, tracks, outputCtx, timer, processor, releases>>
  /\ UNCHANGED <<gum, sessionPromise, channel, outVars, inVars>>

\* await outputCtx.resume() resolved; audioContextRef is set and
\* connectToYogaSession is called, which throws inside its async body when
\* API_KEY is not set.  The promise is stored, not awaited.
ResumeOutput ==
  /\ TaskBoundary
  /\ pc = "resume_output"
  /\ outputCtx' = IF outputCtx = "suspended" THEN "running" ELSE outputCtx
  /\ audioContextRef' = "outputCtx"
  /\ \E apiKey \in BOOLEAN :
       IF apiKey
         THEN sessionPromise' = "pending" /\ channel' = "connecting"
         ELSE sessionPromise' = "rejected" /\ channel' = channel
  /\ pc' = "done"
  /\ UNCHANGED <<uiVars, streamRef, processorRef, frameIntervalRef, videoSrc>>
  /\ UNCHANGED <<tracks, inputCtx, timer, processor, releases>>
  /\ UNCHANGED <<gum, outVars, inVars>>

\* callbacks.onOpen.
onOpen ==
  /\ TaskBoundary
  /\ channel = "connecting"
  /\ channel' = "open"
  /\ sessionPromise' = "opened"
  /\ isConnected' = SetState(isConnected, TRUE)
  /\ status' = SetState(status, "Connected")
  /\ IF streamRef # "null"
       THEN processorRef' = "processor" /\ processor' = "connected"
       ELSE UNCHANGED <<processorRef, processor>>
  /\ frameIntervalRef' = "interval"
  /\ timer' = "active"
  /\ UNCHANGED <<mounted, currentPoseIndex, isSessionActive, isSpeaking>>
  /\ UNCHANGED <<streamRef, audioContextRef, videoSrc>>
  /\ UNCHANGED <<tracks, inputCtx, outputCtx, releases>>
  /\ UNCHANGED <<gum, pc, outVars, inVars>>

\* ai.live.connect returns the session once the channel has opened.
SessionResolves ==
  /\ sessionPromise = "opened"
  /\ sessionPromise' = "resolved"
  /\ UNCHANGED <<uiVars, refVars, resVars, gum, pc, channel, outVars, inVars>>

\* callbacks.onClose: the channel closes once open, or after its error event.
onClose ==
  /\ TaskBoundary
  /\ channel \in {"open", "errored"}
  /\ channel' = "closed"
  /\ isConnected' = SetState(isConnected, FALSE)
  /\ status' = SetState(status, "Session Ended")
  /\ UNCHANGED <<mounted, currentPoseIndex, isSessionActive, isSpeaking>>
  /\ UNCHANGED <<refVars, resVars, gum, pc, sessionPromise, outVars, inVars>>

\* callbacks.onError: the handshake or the open channel fails.
onError ==
  /\ TaskBoundary
  /\ channel \in {"connecting", "open"}
  /\ channel' = "errored"
  /\ status' = SetState(status, "Connection Error")
  /\ UNCHANGED <<mounted, currentPoseIndex, isSessionActive, isConnected, isSpeaking>>
  /\ UNCHANGED <<refVars, resVars, gum, pc, sessionPromise, outVars, inVars>>

\* The parent unmounts the component (Cancel, X): the effect's cleanup runs.
Unmount ==
  /\ TaskBoundary
  /\ mounted
  /\ mounted' = FALSE
  /\ cleanup
  /\ UNCHANGED <<currentPoseIndex, isSessionActive, isConnected, isSpeaking, status>>
  /\ UNCHANGED <<refVars, connVars, outVars, inVars>>

\* -------------------------------------------------------------- outbound
AudioSend(n) == [kind |-> "audio", id |-> n, name |-> "", result |-> ""]

FrameSend(n) == [kind |-> "frame", id |-> n, name |-> "", result |-> ""]

ToolSend(i, nm, res) == [kind |-> "tool", id |-> i, name |-> nm, result |-> res]

RegisteredUnlessBusy(queue, send) ==
  IF queue = <<>> THEN Append(queue, send) ELSE queue

\* sessionPromise.then(session => session.send...(...)): the callback joins
\* the promise's reactions, behind those registered before it.
Registered(queue, send) == Append(queue, send)

\* A sample is a multiple of 1 / SampleUnit, so that s * 32768 has a
\* fractional part and the truncation of the product is exercised.
SampleUnit == SampleSteps * PcmScale

\* ToInt32-style truncation of num / den toward zero.
Trunc(num, den) ==
  IF num >= 0 THEN num \div den ELSE -((-num) \div den)

\* The store into an Int16Array element: modulo 2^16, read back signed.
ToInt16(x) == ((x + Int16Modulus \div 2) % Int16Modulus) - Int16Modulus \div 2

\* createPcmBlob, for one sample of the block: int16[i] = data[i] * 32768,
\* where data[i] * 32768 = (sample / SampleUnit) * PcmScale = sample / SampleSteps.
\* The base64 packing that follows carries the 16-bit values unchanged.
createPcmBlob(sample) == ToInt16(Trunc(sample, SampleSteps))

\* processor.onaudioprocess: one block in, encoded by createPcmBlob, one
\* then-callback registered.
onaudioprocess(sample) ==
  /\ TaskBoundary
  /\ processor = "connected"
  /\ captured < MaxBlocks
  /\ captured' = captured + 1
  /\ pcm' = [sample |-> sample, int16 |-> createPcmBlob(sample)]
  /\ thenQueue' = Registered(thenQueue, AudioSend(captured + 1))
  /\ UNCHANGED <<uiVars, refVars, resVars, connVars, inVars>>
  /\ UNCHANGED <<ticks, blobPending, b64Pending, sentAudio, sentFrames, sentResponses>>

\* The interval callback: draws and calls canvas.toBlob when the video and
\* the canvas are rendered and the video has dimensions.
FrameTick ==
  /\ TaskBoundary
  /\ timer = "active"
  /\ ticks < MaxTicks
  /\ ticks' = ticks + 1
  /\ \E hasSize \in BOOLEAN :
       blobPending' = IF mounted /\ videoSrc = "stream" /\ hasSize
                        THEN blobPending \cup {ticks + 1}
                        ELSE blobPending
  /\ UNCHANGED <<uiVars, refVars, resVars, connVars, inVars>>
  /\ UNCHANGED <<captured, pcm, b64Pending, thenQueue, sentAudio, sentFrames, sentResponses>>

\* The toBlob callback, up to await blobToBase64(blob); a null blob ends it.
ToBlobDone ==
  \E k \in blobPending :
    /\ TaskBoundary
    /\ blobPending' = blobPending \ {k}
    /\ \E blob \in BOOLEAN :
         b64Pending' = IF blob THEN b64Pending \cup {k} ELSE b64Pending
    /\ UNCHANGED <<uiVars, refVars, resVars, connVars, inVars>>
    /\ UNCHANGED <<captured, pcm, ticks, thenQueue, sentAudio, sentFrames, sentResponses>>

\* The toBlob callback after await blobToBase64(blob).
BlobToBase64Done ==
  \E k \in b64Pending :
    /\ TaskBoundary
    /\ b64Pending' = b64Pending \ {k}
    /\ thenQueue' = Registered(thenQueue, FrameSend(k))
    /\ UNCHANGED <<uiVars, refVars, resVars, connVars, inVars>>
    /\ UNCHANGED <<captured, pcm, ticks, blobPending, sentAudio, sentFrames, sentResponses>>

\* A callback given to sessionPromise.then runs, in registration order,
\* once the promise is resolved.
RunThen ==
  /\ sessionPromise = "resolved"
  /\ thenQueue # <<>>
  /\ LET s == Head(thenQueue) IN
       /\ thenQueue' = Tail(thenQueue)
       /\ sentAudio' = IF s.kind = "audio" THEN Append(sentAudio, s.id) ELSE sentAudio
       /\ sentFrames' = IF s.kind = "frame" THEN Append(sentFrames, s.id) ELSE sentFrames
       /\ sentResponses' = IF s.kind = "tool" THEN Append(sentResponses, s) ELSE sentResponses
  /\ UNCHANGED <<uiVars, refVars, resVars, connVars, inVars>>
  /\ UNCHANGED <<captured, pcm, ticks, blobPending, b64Pending>>

\* --------------------------------------------------------------- inbound
\* Values the remote endpoint may put under args['index'].
IntArg(n) == [t |-> "int", n |-> n]

HalfArg(n) == [t |-> "half", n |-> n]

NullArg == [t |-> "null", n |-> 0]

EmptyStringArg == [t |-> "str", n |-> 0]

TrueArg == [t |-> "bool", n |-> 1]

MissingArg == [t |-> "undef", n |-> 0]

NaN == [nan |-> TRUE, v |-> 0]

\* Number(fc.args['index']): a JS number, in halves, or NaN.
Number(a) ==
  CASE a.t = "int" -> [nan |-> FALSE, v |-> Num(a.n)]
    [] a.t = "half" -> [nan |-> FALSE, v |-> Num(a.n) + 1]
    [] a.t = "null" -> [nan |-> FALSE, v |-> 0]
    [] a.t = "str" -> [nan |-> FALSE, v |-> 0]
    [] a.t = "bool" -> [nan |-> FALSE, v |-> Num(a.n)]
    [] OTHER -> NaN

OkResult == "OK, pose updated."

ErrResult == "Error: Pose index out of bounds."

IndexAcceptedUpToLength(x) == ~x.nan /\ x.v >= 0 /\ x.v <= Num(PoseCount)

\* !isNaN(newIndex) && newIndex >= 0 && newIndex < sequence.poses.length
IndexAccepted(x) == ~x.nan /\ x.v >= 0 /\ x.v < Num(PoseCount)

\* for (const fc of toolCall.functionCalls): the index the loop leaves and
\* the then-callbacks it registers, in order.
RECURSIVE ToolLoop(_, _, _)
ToolLoop(calls, idx, sends) ==
  IF calls = <<>> THEN [idx |-> idx, sends |-> sends]
  ELSE LET fc == Head(calls)
           newIndex == Number(fc.arg) IN
       IF fc.name = "setPoseIndex"
         THEN IF IndexAccepted(newIndex)
                THEN ToolLoop(Tail(calls), SetState(idx, newIndex.v),
                              Registered(sends, ToolSend(fc.id, fc.name, OkResult)))
                ELSE ToolLoop(Tail(calls), idx,
                              Registered(sends, ToolSend(fc.id, fc.name, ErrResult)))
         ELSE ToolLoop(Tail(calls), idx, sends)

\* The tool-call part of onMessage, and the render that follows it: a render
\* that throws unmounts the tree, which runs the effect's cleanup.
HandleToolCalls(calls) ==
  LET r == ToolLoop(calls, currentPoseIndex, <<>>) IN
    /\ currentPoseIndex' = r.idx
    /\ thenQueue' = thenQueue \o r.sends
    /\ lastBatch' = IF calls = <<>> THEN lastBatch
                    ELSE [calls |-> calls, before |-> currentPoseIndex,
                          after |-> r.idx, live |-> mounted]
    /\ IF mounted /\ RenderThrows(r.idx)
         THEN mounted' = FALSE /\ cleanup
         ELSE UNCHANGED <<mounted, resVars>>

CallId(m, k) == 10 * m + k

SyncedStartToClock(next, now) == now

\* nextStartTimeRef.current = Math.max(nextStartTimeRef.current, ctx.currentTime)
SyncedStart(next, now) == Max(next, now)

AdvancedStartStale(next, dur) == next

AdvancedStartPadded(next, dur) == next + dur + 1

\* nextStartTimeRef.current += buffer.duration
AdvancedStart(next, dur) == next + dur

\* onMessage up to await decodeAudioData, or to its end when the message
\* has no audio.  A payload atob or Int16Array rejects throws out of the
\* handler, which has no try: its promise rejects and nothing more runs.
onMessage(msg) ==
  /\ TaskBoundary
  /\ channel = "open"
  /\ msgCount' = msgCount + 1
  /\ LET m == msgCount + 1
         calls == [k \in 1..Len(msg.calls) |->
                     [id |-> CallId(m, k), name |-> msg.calls[k].name,
                      arg |-> msg.calls[k].arg]] IN
       CASE msg.audio = "none" ->
              /\ HandleToolCalls(calls)
              /\ UNCHANGED <<isSpeaking, nextStartTimeRef, decodePending>>
              /\ UNCHANGED unhandledRejections
         [] msg.audio = "bad" ->
              /\ isSpeaking' = SetState(isSpeaking, TRUE)
              /\ nextStartTimeRef' = SyncedStart(nextStartTimeRef, currentTime)
              /\ unhandledRejections' =
                   unhandledRejections \cup {[id |-> m, calls |-> calls]}
              /\ UNCHANGED <<mounted, currentPoseIndex, resVars, thenQueue>>
              /\ UNCHANGED <<decodePending, lastBatch>>
         [] OTHER ->
              /\ isSpeaking' = SetState(isSpeaking, TRUE)
              /\ nextStartTimeRef' = SyncedStart(nextStartTimeRef, currentTime)
              /\ decodePending' = Append(decodePending,
                                         [id |-> m, dur |-> msg.dur, calls |-> calls,
                                          at |-> currentTime])
              /\ UNCHANGED <<mounted, currentPoseIndex, resVars, thenQueue, lastBatch>>
              /\ UNCHANGED unhandledRejections
  /\ UNCHANGED <<isSessionActive, isConnected, status, refVars, connVars>>
  /\ UNCHANGED <<captured, pcm, ticks, blobPending, b64Pending>>
  /\ UNCHANGED <<sentAudio, sentFrames, sentResponses>>
  /\ UNCHANGED <<currentTime, sourcesRef, scheduled>>

\* onMessage after await decodeAudioData: the source is started at
\* nextStartTimeRef.current, which then advances by the buffer's duration.
DecodeDone ==
  /\ decodePending # <<>>
  /\ LET h == Head(decodePending) IN
       /\ decodePending' = Tail(decodePending)
       /\ scheduled' = Append(scheduled,
                              [id |-> h.id, start |-> nextStartTimeRef, dur |-> h.dur,
                               at |-> h.at])
       /\ nextStartTimeRef' = AdvancedStart(nextStartTimeRef, h.dur)
       /\ sourcesRef' = sourcesRef \cup {h.id}
       /\ HandleToolCalls(h.calls)
  /\ UNCHANGED <<isSessionActive, isConnected, isSpeaking, status, refVars, connVars>>
  /\ UNCHANGED <<captured, pcm, ticks, blobPending, b64Pending>>
  /\ UNCHANGED <<sentAudio, sentFrames, sentResponses, msgCount, currentTime>>
  /\ UNCHANGED unhandledRejections

EndOf(id) ==
  LET s == CHOOSE s \in {scheduled[i] : i \in 1..Len(scheduled)} : s.id = id
  IN s.start + s.dur

\* The source's 'ended' listener, once the output clock has passed its end.
Ended ==
  \E id \in sourcesRef :
    /\ TaskBoundary
    /\ outputCtx = "running"
    /\ currentTime >= EndOf(id)
    /\ sourcesRef' = sourcesRef \ {id}
    /\ isSpeaking' = IF sourcesRef' = {} THEN SetState(isSpeaking, FALSE) ELSE isSpeaking
    /\ UNCHANGED <<mounted, currentPoseIndex, isSessionActive, isConnected, status>>
    /\ UNCHANGED <<refVars, resVars, connVars, outVars>>
    /\ UNCHANGED <<msgCount, decodePending, nextStartTimeRef, currentTime, scheduled, lastBatch>>
    /\ UNCHANGED unhandledRejections

\* The output context's clock advances while the context runs.
ClockTick ==
  /\ outputCtx = "running"
  /\ currentTime < MaxClock
  /\ currentTime' = currentTime + 1
  /\ UNCHANGED <<uiVars, refVars, resVars, connVars, outVars>>
  /\ UNCHANGED <<msgCount, decodePending, nextStartTimeRef, sourcesRef, scheduled, lastBatch>>
  /\ UNCHANGED unhandledRejections

\* ------------------------------------------------------ manual navigation
StepBackFromRendered(prev) == Max(Num(0), lastBatch.before - Num(1))

\* prev => Math.max(0, prev - 1): the updater is given the latest state.
StepBack(prev) == Max(Num(0), prev - Num(1))

\* prev => Math.min(sequence.poses.length - 1, prev + 1)
StepForward(prev) == Min(Num(PoseCount - 1), prev + Num(1))

\* The Prev button: disabled at index 0.
PrevPose ==
  /\ TaskBoundary
  /\ mounted /\ isSessionActive
  /\ currentPoseIndex # Num(0)
  /\ currentPoseIndex' = StepBack(currentPoseIndex)
  /\ UNCHANGED <<mounted, isSessionActive, isConnected, isSpeaking, status>>
  /\ UNCHANGED <<refVars, resVars, connVars, outVars, inVars>>

\* The Next button: disabled at the last index.
NextPose ==
  /\ TaskBoundary
  /\ mounted /\ isSessionActive
  /\ currentPoseIndex # Num(PoseCount - 1)
  /\ currentPoseIndex' = StepForward(currentPoseIndex)
  /\ UNCHANGED <<mounted, isSessionActive, isConnected, isSpeaking, status>>
  /\ UNCHANGED <<refVars, resVars, connVars, outVars, inVars>>

\* ----------------------------------------------------- inbound messages
AudioMsgs ==
  {[audio |-> "bad", dur |-> 0, calls |-> <<>>]}
    \cup {[audio |-> "ok", dur |-> d, calls |-> <<>>] : d \in 1..MaxDur}

Args ==
  {IntArg(-1), IntArg(0), IntArg(PoseCount - 1), IntArg(PoseCount)}
    \cup {HalfArg(1), NullArg, EmptyStringArg, TrueArg, MissingArg}

Calls ==
  {[name |-> "setPoseIndex", arg |-> a] : a \in Args}
    \cup {[name |-> "getPose", arg |-> MissingArg]}

\* The calls that messages carrying several calls are made of.
CoreCalls ==
  {[name |-> "setPoseIndex", arg |-> IntArg(PoseCount - 1)],
   [name |-> "setPoseIndex", arg |-> IntArg(PoseCount)],
   [name |-> "getPose", arg |-> MissingArg]}

CallSeqs ==
  [1..1 -> Calls] \cup UNION {[1..n -> CoreCalls] : n \in 2..MaxCalls}

ToolMsgs == {[audio |-> "none", dur |-> 0, calls |-> cs] : cs \in CallSeqs}

\* Messages that may carry audio and a navigation call together.
MixedCalls ==
  {<<>>,
   <<[name |-> "setPoseIndex", arg |-> IntArg(PoseCount - 1)]>>,
   <<[name |-> "setPoseIndex", arg |-> IntArg(PoseCount)]>>}

MixedMsgs ==
  {[audio |-> a, dur |-> IF a = "ok" THEN 1 ELSE 0, calls |-> cs] :
     a \in {"none", "ok", "bad"}, cs \in MixedCalls}

\* ------------------------------------------------------ microphone input
\* The samples the session specifications feed the encoder: -1.0, 0, 1.0.
BlockSamples == {-SampleUnit, 0, SampleUnit}

\* The samples within SampleSpan steps of -1.0, of 0 and of 1.0.
Samples ==
  (-SampleUnit .. -SampleUnit + SampleSpan)
    \cup (-SampleSpan .. SampleSpan)
    \cup (SampleUnit - SampleSpan .. SampleUnit)

\* ------------------------------------------------------- specifications
\* The session's life and its outbound streams.
Next ==
  \/ InitCameraGranted
  \/ InitCameraDenied
  \/ handleStartSession
  \/ ResumeInput
  \/ ResumeOutput
  \/ onOpen
  \/ SessionResolves
  \/ onClose
  \/ onError
  \/ Unmount
  \/ \E s \in BlockSamples : onaudioprocess(s)
  \/ FrameTick
  \/ ToBlobDone
  \/ BlobToBase64Done
  \/ RunThen

Spec == Init /\ [][Next]_vars

\* The session's life up to the open channel, and its teardown.
Session ==
  \/ InitCameraGranted
  \/ handleStartSession
  \/ ResumeInput
  \/ ResumeOutput
  \/ onOpen
  \/ SessionResolves
  \/ Unmount

\* The session and the playback of inbound audio.
NextPlayback ==
  \/ Session
  \/ \E msg \in AudioMsgs : msgCount < MaxMsgs /\ onMessage(msg)
  \/ DecodeDone
  \/ Ended
  \/ ClockTick

SpecPlayback == Init /\ [][NextPlayback]_vars

\* Playback under the scheduling the browser gives: a resumed handler
\* runs, the audio thread keeps the clock running, and a source that has
\* played to its end fires its 'ended' event.
FairSpecPlayback ==
  SpecPlayback /\ WF_vars(DecodeDone) /\ WF_vars(Ended) /\ WF_vars(ClockTick)

\* The session, voice-driven navigation and manual navigation.
NextTools ==
  \/ Session
  \/ \E msg \in ToolMsgs : msgCount < MaxToolMsgs /\ onMessage(msg)
  \/ PrevPose
  \/ NextPose
  \/ RunThen

SpecTools == Init /\ [][NextTools]_vars

\* The session and the audio encoder over the samples near -1.0, 0 and 1.0.
NextEncoder ==
  \/ Session
  \/ \E s \in Samples : onaudioprocess(s)

SpecEncoder == Init /\ [][NextEncoder]_vars

\* The session and inbound messages carrying audio, tool calls or both.
NextMixed ==
  \/ Session
  \/ \E msg \in MixedMsgs : msgCount < MaxMsgs /\ onMessage(msg)
  \/ DecodeDone
  \/ RunThen

SpecMixed == Init /\ [][NextMixed]_vars

\* ----------------------------------------------------------------- claims
\* C1: no two chunks are scheduled on overlapping playback intervals: each
\* chunk starts at or after start + duration of every chunk scheduled
\* before it.
C1_NoOverlap ==
  \A i, j \in 1..Len(scheduled) :
    i < j => scheduled[j].start >= scheduled[i].start + scheduled[i].dur

\* A burst: the second chunk was scheduled while the first was still
\* pending, and starts exactly where the first ends.
C1_Witness ==
  /\ Len(scheduled) >= 2
  /\ {scheduled[1].id, scheduled[2].id} \subseteq sourcesRef
  /\ scheduled[1].start + scheduled[1].dur > currentTime
  /\ scheduled[2].start = scheduled[1].start + scheduled[1].dur
\* The tool responses registered or sent so far, in order.
ToolResponses ==
  sentResponses \o SelectSeq(thenQueue, LAMBDA s : s.kind = "tool")

ResponsesTo(id) == SelectSeq(ToolResponses, LAMBDA r : r.id = id)

\* The calls of the last message that name the navigation tool with an
\* integer index.
IntegerCalls ==
  {k \in 1..Len(lastBatch.calls) :
     lastBatch.calls[k].name = "setPoseIndex" /\ lastBatch.calls[k].arg.t = "int"}

InRange(i) == 0 <= i /\ i < PoseCount

\* C2: setPoseIndex(i) with an integer i gets exactly one response, success
\* if 0 <= i < poseCount and failure otherwise; the pose index of the
\* mounted session becomes the i of the last in-range call of the message
\* and is unchanged when the message has none.
C2_SetPoseIndex ==
  (\A k \in 1..Len(lastBatch.calls) :
     lastBatch.calls[k].name = "setPoseIndex" => k \in IntegerCalls)
  =>
  /\ \A k \in IntegerCalls :
       LET fc == lastBatch.calls[k] IN
         /\ Len(ResponsesTo(fc.id)) = 1
         /\ ResponsesTo(fc.id)[1].result =
              IF InRange(fc.arg.n) THEN "OK, pose updated."
              ELSE "Error: Pose index out of bounds."
  /\ lastBatch.live =>
       LET good == {k \in IntegerCalls : InRange(lastBatch.calls[k].arg.n)} IN
         IF good = {} THEN lastBatch.after = lastBatch.before
         ELSE LET last == CHOOSE k \in good : \A j \in good : j <= k
              IN lastBatch.after = Num(lastBatch.calls[last].arg.n)

\* One message carried setPoseIndex(PoseCount) and setPoseIndex(PoseCount-1):
\* the index moved, and both responses have been sent.
C2_Witness ==
  /\ lastBatch.live
  /\ Len(lastBatch.calls) = 2
  /\ IntegerCalls = {1, 2}
  /\ ~InRange(lastBatch.calls[1].arg.n)
  /\ InRange(lastBatch.calls[2].arg.n)
  /\ lastBatch.before # lastBatch.after
  /\ Len(sentResponses) = 2
  /\ sentResponses[1].result = "Error: Pose index out of bounds."
  /\ sentResponses[2].result = "OK, pose updated."

\* C3: every tool call of every inbound message, whatever its name, gets
\* exactly one response carrying its identifier and name.
C3_EveryCallAnswered ==
  \A k \in 1..Len(lastBatch.calls) :
    LET fc == lastBatch.calls[k] IN
      /\ Len(ResponsesTo(fc.id)) = 1
      /\ ResponsesTo(fc.id)[1].name = fc.name

\* C4: the current pose index is an integer with 0 <= index < len(poses).
C4_PoseIndexInBounds ==
  /\ IsInteger(currentPoseIndex)
  /\ Num(0) <= currentPoseIndex
  /\ currentPoseIndex < Num(PoseCount)
\* C5: whenever the session is observed (it is mounted and the event loop
\* is between events), isSpeaking is true exactly when the pending-playback
\* set is non-empty.
C5_SpeakingMatchesPending ==
  (mounted /\ TaskBoundary) => (isSpeaking <=> sourcesRef # {})

Holds(r) ==
  CASE r = "tracks" -> tracks = "live"
    [] r = "inputCtx" -> inputCtx \in {"suspended", "running"}
    [] r = "outputCtx" -> outputCtx \in {"suspended", "running"}
    [] r = "timer" -> timer = "active"
    [] OTHER -> processor = "connected"

\* C6: the teardown run on unmount releases every resource the session
\* holds at that moment - tracks, both audio contexts, frame timer,
\* processing node - each exactly once.
C6_CleanupReleasesAll ==
  [][(mounted /\ ~mounted') =>
       \A r \in Resources : Holds(r) => (~Holds(r)' /\ releases'[r] = 1)]_vars

\* No continuation of initCamera or handleStartSession is pending and the
\* channel is not about to open.
Quiescent ==
  /\ gum # "pending"
  /\ pc \in {"idle", "done"}
  /\ channel # "connecting"
  /\ TaskBoundary

\* C7: once the component has been torn down and every pending callback has
\* run, no acquired device track is live and no frame timer is active.
C7_StoppedAfterTeardown ==
  (~mounted /\ Quiescent) => (tracks # "live" /\ timer # "active")

\* C8: once the session has ended - closed by the remote end or failed with
\* a transport error - no capture resource is still held.
C8_ReleasedWhenEnded ==
  channel \in {"closed", "errored"} => \A r \in Resources : ~Holds(r)

\* C9: after the close or the error callback, nothing more is handed to the
\* session for sending.
C9_NoSendAfterEnd ==
  [][(channel \in {"closed", "errored"}) => UNCHANGED sentVars]_vars

\* The blocks whose send is registered and has not run yet, in order.
QueuedAudio ==
  LET q == SelectSeq(thenQueue, LAMBDA s : s.kind = "audio")
  IN [k \in 1..Len(q) |-> q[k].id]

\* C10: the chunks sent, followed by those whose send is registered, are
\* the captured blocks 1..captured, each once and in capture order.
C10_AudioInCaptureOrder ==
  sentAudio \o QueuedAudio = [k \in 1..captured |-> k]

\* Blocks captured while the connect call had not returned were sent, in
\* order, once it had.
C10_Witness ==
  /\ captured >= 2
  /\ sentAudio = [k \in 1..captured |-> k]

\* C11: frames are sent in sampling-tick order: a frame sampled at an
\* earlier tick is never sent after a frame sampled at a later tick.
C11_FramesInTickOrder ==
  \A i, j \in 1..Len(sentFrames) : i < j => sentFrames[i] < sentFrames[j]

MsgOf(id) == id \div 10

\* C12: inbound messages take effect in arrival order: no message is
\* delivered while the handler of an earlier one is suspended on decode,
\* chunks are scheduled in the order their messages arrived, and tool
\* responses are registered and sent in that order.
C12_ArrivalOrder ==
  /\ \A i \in 1..Len(decodePending) : decodePending[i].id = msgCount
  /\ \A i, j \in 1..Len(scheduled) : i < j => scheduled[i].id < scheduled[j].id
  /\ \A i, j \in 1..Len(ToolResponses) :
       i < j => ToolResponses[i].id < ToolResponses[j].id

\* Two messages, each with audio and a navigation call, have been handled:
\* both chunks are scheduled and both responses sent, first message first.
C12_Witness ==
  /\ Len(scheduled) = 2
  /\ Len(sentResponses) = 2
  /\ MsgOf(sentResponses[1].id) = 1
  /\ MsgOf(sentResponses[2].id) = 2
  /\ scheduled[1].id = 1
  /\ scheduled[2].id = 2

\* A message whose handler rejected has nothing scheduled, and between
\* events every other audio message delivered so far has been scheduled.
OnlyFailedChunksDropped ==
  LET ids == {scheduled[i].id : i \in 1..Len(scheduled)}
      failed == {r.id : r \in unhandledRejections} IN
    /\ ids \cap failed = {}
    /\ TaskBoundary => ids = (1..msgCount) \ failed

\* C13: a malformed audio payload drops only that chunk: no error escapes
\* the message handler, nothing is scheduled for the chunk, and every
\* well-formed chunk, earlier or later, is scheduled.
C13_DecodeFailureContained ==
  /\ unhandledRejections = {}
  /\ OnlyFailedChunksDropped

ErrorStatuses ==
  {"Camera access required.", "Connection Error", "Failed to start session."}

\* C14: once camera/microphone permission has been denied, the status the
\* mounted session shows is an error state and never Connected, and no
\* audio chunk and no frame is sent.
C14_DeniedStaysErrored ==
  (gum = "denied" /\ mounted) =>
    /\ status \in ErrorStatuses
    /\ ~isConnected
    /\ sentAudio = <<>>
    /\ sentFrames = <<>>

\* What of C14 the code keeps: with permission denied nothing is captured
\* and nothing is sent.
DeniedSendsNothing ==
  gum = "denied" => (captured = 0 /\ sentAudio = <<>> /\ sentFrames = <<>>)

\* C15: when the connect call has rejected or the error callback has
\* fired, the status the mounted session shows is no longer Connecting or
\* Connected.
C15_FailureSetsErrored ==
  (mounted /\ (sessionPromise = "rejected" \/ channel = "errored")) =>
    status \notin {"Connecting to AI...", "Connected"}

\* What of C15 the code keeps: the error callback sets the error status.
ErrorCallbackSetsErrored ==
  (mounted /\ channel = "errored") =>
    status \notin {"Connecting to AI...", "Connected"}

\* C16: connectToYogaSession is invoked at most once per LiveYogaSession
\* instance - a connect call is made only when none was made before - and
\* once the channel has closed or failed no new connection is started.
C16_AtMostOneSession ==
  [][/\ (sessionPromise' # sessionPromise /\ sessionPromise' \in {"pending", "rejected"})
          => sessionPromise = "none"
     /\ (channel \in {"closed", "errored"}) => channel' \in {"closed", "errored"}]_vars

\* The session was started, its channel opened and then closed, and the
\* component is still mounted.
C16_Witness ==
  /\ mounted
  /\ isSessionActive
  /\ pc = "done"
  /\ sessionPromise = "resolved"
  /\ channel = "closed"

\* The status texts that stand for the states of the connection.
StatusAllowedAfter(st) ==
  CASE st = "Ready to Start" -> {"Connecting to AI..."} \cup ErrorStatuses
    [] st = "Connecting to AI..." -> {"Connected", "Session Ended"} \cup ErrorStatuses
    [] st = "Connected" -> {"Session Ended"} \cup ErrorStatuses
    [] OTHER -> {}

\* C17: the status changes only along Idle -> Connecting -> Connected ->
\* {Closed, Errored}: Connected is entered only from Connecting, and the
\* Closed and Errored statuses are never overwritten.
C17_StatusTransitions ==
  [][status' # status => status' \in StatusAllowedAfter(status)]_vars

\* The part of C17 about the transport: the status the error callback set
\* is kept.
ConnectionErrorKept ==
  [][status = "Connection Error" => status' = status]_vars

\* C18: once the user has closed the live session (the component is
\* unmounted), no connection to the remote endpoint is connecting or open.
C18_UnmountClosesConnection ==
  ~mounted => channel \notin {"connecting", "open"}

\* C19: a setPoseIndex call whose index argument is not an integer is
\* rejected: it gets exactly one failure response and, when it is the only
\* call of its message, the pose index of the mounted session is unchanged.
C19_NonIntegerRejected ==
  \A k \in 1..Len(lastBatch.calls) :
    LET fc == lastBatch.calls[k] IN
      (fc.name = "setPoseIndex" /\ fc.arg.t # "int") =>
        /\ Len(ResponsesTo(fc.id)) = 1
        /\ ResponsesTo(fc.id)[1].result = "Error: Pose index out of bounds."
        /\ (lastBatch.live /\ Len(lastBatch.calls) = 1) =>
             lastBatch.after = lastBatch.before

\* What of C19 the code keeps: a missing index argument is rejected.
MissingIndexRejected ==
  \A k \in 1..Len(lastBatch.calls) :
    LET fc == lastBatch.calls[k] IN
      (fc.name = "setPoseIndex" /\ fc.arg.t = "undef") =>
        /\ Len(ResponsesTo(fc.id)) = 1
        /\ ResponsesTo(fc.id)[1].result = "Error: Pose index out of bounds."
        /\ (lastBatch.live /\ Len(lastBatch.calls) = 1) =>
             lastBatch.after = lastBatch.before

\* An index argument that is not an integer within [0, poseCount).
InvalidIndex(arg) == arg.t # "int" \/ ~InRange(arg.n)

\* An index argument that is an integer out of bounds, or missing.
OutOfBoundsOrMissing(arg) == (arg.t = "int" /\ ~InRange(arg.n)) \/ arg.t = "undef"

\* The step that handles a message whose only call is setPoseIndex with an
\* index Rejected holds of leaves everything alone but the one failure
\* response it registers.
OnlyFailureResponse(Rejected(_)) ==
  (/\ msgCount' = msgCount + 1
   /\ Len(lastBatch'.calls) = 1
   /\ MsgOf(lastBatch'.calls[1].id) = msgCount'
   /\ lastBatch'.calls[1].name = "setPoseIndex"
   /\ Rejected(lastBatch'.calls[1].arg))
  =>
  /\ thenQueue' = Append(thenQueue, ToolSend(lastBatch'.calls[1].id, "setPoseIndex",
                                             "Error: Pose index out of bounds."))
  /\ UNCHANGED <<currentPoseIndex, isConnected, status, isSpeaking>>
  /\ UNCHANGED <<sourcesRef, nextStartTimeRef, sentVars>>

\* C20: a navigation call with an invalid index changes nothing except
\* that one failure response is sent: pose index, connection status,
\* status message, speaking flag, pending set and nextStartTime are kept.
C20_InvalidIndexChangesNothing ==
  [][OnlyFailureResponse(InvalidIndex)]_vars

\* What of C20 the code keeps: an out-of-bounds integer or a missing index
\* changes nothing but the failure response.
RejectedIndexChangesNothing ==
  [][OnlyFailureResponse(OutOfBoundsOrMissing)]_vars

\* C21: nextStartTime is non-decreasing over the whole life of a session:
\* no step of a message handler and no playback-completion callback
\* lowers it.
C21_NextStartTimeMonotone ==
  [][nextStartTimeRef' >= nextStartTimeRef]_vars

\* Two chunks with a gap between them: the marker was raised to the clock
\* by the second message and advanced by each chunk's duration.
C21_Witness ==
  /\ Len(scheduled) = 2
  /\ scheduled[2].start > scheduled[1].start + scheduled[1].dur
  /\ nextStartTimeRef = scheduled[2].start + scheduled[2].dur
  /\ sourcesRef = {scheduled[2].id}

\* C22: when a chunk is handed to the output, its start time is
\* max(nextStartTime, output clock) as they are at that moment, so it is
\* not earlier than the clock.
C22_StartSyncedAtHandOff ==
  [][Len(scheduled') > Len(scheduled) =>
       /\ scheduled'[Len(scheduled')].start = Max(nextStartTimeRef, currentTime)
       /\ scheduled'[Len(scheduled')].start >= currentTime]_vars

\* C23: a chunk whose message arrived before the output clock reached the
\* end of the chunk scheduled before it starts exactly at that end: the
\* previous start plus the previous duration.
C23_GaplessBurst ==
  \A j \in 2..Len(scheduled) :
    LET prev == scheduled[j - 1] IN
      scheduled[j].at < prev.start + prev.dur =>
        scheduled[j].start = prev.start + prev.dur

\* A chunk of duration 2 and then one of duration 1 arrived back to back:
\* the second starts where the first ends.
C23_Witness ==
  /\ Len(scheduled) = 2
  /\ scheduled[1].dur = 2
  /\ scheduled[2].dur = 1
  /\ scheduled[2].at < scheduled[1].start + scheduled[1].dur
  /\ scheduled[2].start = scheduled[1].start + 2
  /\ nextStartTimeRef = scheduled[1].start + 3

\* C24: the tool calls of a message whose audio payload failed to decode
\* are still dispatched: each of them gets exactly one response.
C24_CallsSurviveDecodeFailure ==
  \A r \in unhandledRejections :
    \A k \in 1..Len(r.calls) : Len(ResponsesTo(r.calls[k].id)) = 1

\* What of C24 the code keeps: the messages after a failed one are
\* handled - the calls of the last message the tool loop ran over are
\* answered.
LaterMessagesHandled ==
  \A k \in 1..Len(lastBatch.calls) : Len(ResponsesTo(lastBatch.calls[k].id)) = 1

\* C25: whenever the mounted session is Connected the frame timer is
\* running, and when it also holds a microphone stream the audio encoder
\* is bound to it - whatever the order of the grant and the open event.
C25_ConnectedIsCapturing ==
  (mounted /\ status = "Connected") =>
    /\ timer = "active"
    /\ (streamRef # "null" /\ tracks = "live") => processor = "connected"

\* What of C25 the code keeps: when the stream was granted before the open
\* event, the open event leaves the timer running and the encoder bound.
OpenBindsHeldStream ==
  [][(channel = "connecting" /\ channel' = "open" /\ streamRef # "null") =>
       (timer' = "active" /\ processor' = "connected")]_vars

\* C26: once every scheduled unit has completed and no further audio
\* arrives, the speaking flag of the mounted session becomes false and
\* stays false: from some point on, the flag is false whenever the pending
\* set is empty and no handler is suspended.
C26_SpeakingEndsWithPlayback ==
  <>[]((mounted /\ sourcesRef = {} /\ decodePending = <<>>) => ~isSpeaking)

\* What of C26 the code keeps: the pending set holds scheduled units only,
\* and a unit is removed only once the clock has reached its end.
PendingUnitsPaired ==
  /\ sourcesRef \subseteq {scheduled[i].id : i \in 1..Len(scheduled)}
  /\ \A i, j \in 1..Len(scheduled) : i # j => scheduled[i].id # scheduled[j].id
  /\ \A i \in 1..Len(scheduled) :
       scheduled[i].id \notin sourcesRef =>
         currentTime >= scheduled[i].start + scheduled[i].dur

\* C27: at any moment at most one frame is in flight between its sampling
\* tick and the registration of its send (compression or base64 encoding
\* not finished).
C27_OneCompressionInFlight ==
  Cardinality(blobPending \cup b64Pending) <= 1

\* C28: the encoder maps every sample s in [-1.0, 1.0] into the signed
\* 16-bit range without wraparound: the encoded integer lies in
\* [-32768, 32767], is monotonically non-decreasing in s, and is not of
\* the opposite sign to s.
C28_EncoderNoWraparound ==
  /\ -32768 <= pcm.int16 /\ pcm.int16 <= 32767
  /\ pcm.sample > 0 => pcm.int16 >= 0
  /\ pcm.sample < 0 => pcm.int16 <= 0
  /\ \A s \in Samples : s <= pcm.sample => createPcmBlob(s) <= pcm.int16

\* What of C28 the code keeps: below 1.0 the encoding is in range, keeps
\* the sign and is monotone.
EncoderSoundBelowOne ==
  pcm.sample < SampleUnit =>
    /\ -32768 <= pcm.int16 /\ pcm.int16 <= 32767
    /\ pcm.sample > 0 => pcm.int16 >= 0
    /\ pcm.sample < 0 => pcm.int16 <= 0
    /\ \A s \in Samples : s <= pcm.sample => createPcmBlob(s) <= pcm.int16

\* C29: a manual navigation step (the pose index changes while no message
\* is being handled) moves the index by exactly one from its latest
\* value, a voice-driven update included, and stays within
\* [0, poseCount - 1].
C29_ManualStepByOne ==
  [][(currentPoseIndex' # currentPoseIndex /\ msgCount' = msgCount
        /\ decodePending' = decodePending) =>
       /\ currentPoseIndex' \in {currentPoseIndex - Num(1), currentPoseIndex + Num(1)}
       /\ Num(0) <= currentPoseIndex'
       /\ currentPoseIndex' <= Num(PoseCount - 1)]_vars

\* The voice moved the session from pose 0 to the last pose, and Prev then
\* stepped back from there.
C29_Witness ==
  /\ mounted
  /\ lastBatch.live
  /\ lastBatch.before = Num(0)
  /\ lastBatch.after = Num(PoseCount - 1)
  /\ currentPoseIndex = Num(PoseCount - 2)

\* C30: the connected indicator of the mounted session agrees with the
\* status: isConnected is true exactly when the status is Connected.
C30_IndicatorMatchesStatus ==
  mounted => (isConnected <=> status = "Connected")

\* The part of C30 about the error callback: once it has fired, the
\* indicator is off.
IndicatorOffAfterError ==
  (mounted /\ channel = "errored") => ~isConnected

\* What of C30 the code keeps: once the close callback has fired, the
\* indicator is off.
IndicatorOffAfterClose ==
  (mounted /\ channel = "closed") => ~isConnected

=============================================================================
